---- MODULE Spec2Model ----
(***************************************************************************)
(* Model of scripts/classify_with_llm.py: classify_email (primary Ollama   *)
(* call, optional OpenAI fallback) and classify_with_openai.               *)
(*                                                                         *)
(* A Python str whose characters matter (a backend's generated text, the   *)
(* endpoint URL) is a sequence of one-character strings; a str that is     *)
(* only compared or passed on (a model name, an API key, a prompt field)   *)
(* is a TLA+ string.  Optional[str] is a set with at most one element:     *)
(* None is {} and the value v is {v}.                                      *)
(***************************************************************************)
EXTENDS Integers, Sequences, FiniteSets, TLC

\* ------------------------------------------------------------------
\* Bounds of the model
\* ------------------------------------------------------------------

\* Longest generated text a backend answers with.
MaxLen == 3

\* Number of classify_email calls one process makes in SpecRepeat.
MaxCalls == 3

\* ------------------------------------------------------------------
\* Optional values and os.getenv
\* ------------------------------------------------------------------

None == {}

Some(v) == {v}

Unwrap(o) == CHOOSE v \in o : TRUE

\* os.getenv(name, default): the variable's value when it is set (an empty
\* value included), the default otherwise.
GetenvDefault(environ, name, default) ==
    IF environ[name] = None THEN default ELSE Unwrap(environ[name])

\* os.getenv(name): the variable's value, or None.
Getenv(environ, name) == environ[name]

\* ------------------------------------------------------------------
\* str.strip(), str.split(), str.rstrip(chars)
\* ------------------------------------------------------------------

\* Two of the characters str.strip() and str.split() take for whitespace.
Whitespace == {" ", "\n"}

Chars == {"2", "b"} \cup Whitespace

RECURSIVE LStrip(_)
LStrip(s) ==
    IF s # <<>> /\ Head(s) \in Whitespace THEN LStrip(Tail(s)) ELSE s

RECURSIVE RStripChars(_, _)
RStripChars(s, chars) ==
    IF s # <<>> /\ s[Len(s)] \in chars
    THEN RStripChars(SubSeq(s, 1, Len(s) - 1), chars)
    ELSE s

\* s.strip()
Strip(s) == RStripChars(LStrip(s), Whitespace)

\* Length of the leading run of non-whitespace characters of s.
RECURSIVE WordLen(_)
WordLen(s) ==
    IF s = <<>> \/ Head(s) \in Whitespace THEN 0 ELSE 1 + WordLen(Tail(s))

\* s.split(): the maximal runs of non-whitespace characters, in order.
RECURSIVE Split(_)
Split(s) ==
    LET t == LStrip(s)
        n == WordLen(t)
    IN  IF t = <<>> THEN <<>>
        ELSE <<SubSeq(t, 1, n)>> \o Split(SubSeq(t, n + 1, Len(t)))

\* The result of an attempt: a value, or the kind of the exception raised.
Ok(v) == [ok |-> TRUE, value |-> v, error |-> "none"]

Err(kind) == [ok |-> FALSE, value |-> <<>>, error |-> kind]

\* A mistaken variant: text.strip() alone, the stripped text returned whole.
FirstTokenUnsplit(text) ==
    IF Strip(text) = <<>> THEN Err("IndexError") ELSE Ok(Strip(text))

\* A mistaken variant: an empty text gives "" instead of raising.
FirstTokenOrEmpty(text) ==
    LET words == Split(Strip(text))
    IN  IF words = <<>> THEN Ok(<<>>) ELSE Ok(words[1])

\* Lines 95 and 133, text.strip().split()[0]: the first whitespace-delimited
\* token of the text; indexing the empty list raises IndexError.
FirstToken(text) ==
    LET words == Split(Strip(text))
    IN  IF words = <<>> THEN Err("IndexError") ELSE Ok(words[1])

\* ------------------------------------------------------------------
\* What a backend can answer to requests.post
\* ------------------------------------------------------------------

\* requests.post raises (err is the exception) or returns a response with a
\* status code and a body.  A body is described by its shape and, when the
\* shape holds a generated text, that text.
Reply(err, status, shape, text) ==
    [err |-> err, status |-> status, shape |-> shape, text |-> text]

\* Response.raise_for_status(): HTTPError for a status in 400..599 and
\* nothing otherwise; a 3xx answer that requests had no redirect to follow
\* for (300, or no Location header) comes back as it is and passes.
RaisesForStatus(status) == status >= 400 /\ status < 600

\* Lines 86-96: the outcome of the try block for one reply of the Ollama
\* server.  Shapes of the body:
\*   "invalid_json"   response.json() raises (JSONDecodeError)
\*   "array"          data is a list: data.get raises AttributeError
\*   "no_response"    data is an object without "response": the default ""
\*   "null_response"  {"response": null}: None.strip raises AttributeError
\*   "response"       {"response": text}
OllamaAttempt(reply) ==
    IF reply.err # "none" THEN Err(reply.err)
    ELSE IF RaisesForStatus(reply.status) THEN Err("HTTPError")
    ELSE IF reply.shape = "invalid_json" THEN Err("JSONDecodeError")
    ELSE IF reply.shape = "array" THEN Err("AttributeError")
    ELSE IF reply.shape = "null_response" THEN Err("AttributeError")
    ELSE IF reply.shape = "no_response" THEN FirstToken(<<>>)
    ELSE FirstToken(reply.text)

\* Shapes of the body of an OpenAI reply:
\*   "invalid_json"   response.json() raises
\*   "array"          data is a list: data.get raises AttributeError
\*   "no_choices"     no "choices": the default [{}], so content is ""
\*   "empty_choices"  {"choices": []}: [0] raises IndexError
\*   "no_content"     {"choices": [{"message": {}}]}: content is ""
\*   "null_content"   content is null: None.strip raises AttributeError
\*   "content"        {"choices": [{"message": {"content": text}}]}
\* A mistaken variant: the stripped content returned whole, not split.
classify_with_openai_whole(reply) ==
    IF reply.err # "none" THEN Err(reply.err)
    ELSE IF RaisesForStatus(reply.status) THEN Err("HTTPError")
    ELSE IF reply.shape = "invalid_json" THEN Err("JSONDecodeError")
    ELSE IF reply.shape = "array" THEN Err("AttributeError")
    ELSE IF reply.shape = "empty_choices" THEN Err("IndexError")
    ELSE IF reply.shape = "null_content" THEN Err("AttributeError")
    ELSE IF reply.shape \in {"no_choices", "no_content"} THEN FirstToken(<<>>)
    ELSE FirstTokenUnsplit(reply.text)

\* Lines 129-133: classify_with_openai for one reply of the OpenAI server.
classify_with_openai(reply) ==
    IF reply.err # "none" THEN Err(reply.err)
    ELSE IF RaisesForStatus(reply.status) THEN Err("HTTPError")
    ELSE IF reply.shape = "invalid_json" THEN Err("JSONDecodeError")
    ELSE IF reply.shape = "array" THEN Err("AttributeError")
    ELSE IF reply.shape = "empty_choices" THEN Err("IndexError")
    ELSE IF reply.shape = "null_content" THEN Err("AttributeError")
    ELSE IF reply.shape \in {"no_choices", "no_content"} THEN FirstToken(<<>>)
    ELSE FirstToken(reply.text)

\* ------------------------------------------------------------------
\* classify_email: prompt, configuration, requests
\* ------------------------------------------------------------------

DEFAULT_OLLAMA_ENDPOINT == <<"http://localhost:11434">>

DEFAULT_OLLAMA_MODEL == "llama3"

OPENAI_URL == <<"https://api.openai.com/v1/chat/completions">>

OPENAI_MODEL == "gpt-4-turbo"

SYSTEM_MESSAGE == "You are a helpful assistant."

TIMEOUT == 30

MAX_TOKENS == 1

TEMPERATURE == 0

\* Lines 58-74: the fixed template with the three fields interpolated as they
\* are.
BuildPrompt(sender, subject, body_snippet) ==
    << "You are an email classifier. [...] Return ONLY the number [...]",
       "1 - Personal or Important", "2 - Promotional or Notification",
       "3 - Newsletter", "4 - Unimportant Junk",
       "Sender: ", sender, "Subject: ", subject, "Body: ", body_snippet,
       "Classification:" >>

\* Lines 77-82: an argument left at None takes the environment's value.
ResolveEndpoint(arg, environ) ==
    IF arg = None
    THEN GetenvDefault(environ, "OLLAMA_ENDPOINT", DEFAULT_OLLAMA_ENDPOINT)
    ELSE Unwrap(arg)

ResolveModel(arg, environ) ==
    IF arg = None
    THEN GetenvDefault(environ, "OLLAMA_MODEL", DEFAULT_OLLAMA_MODEL)
    ELSE Unwrap(arg)

\* A mistaken variant, `openai_api_key or os.getenv(...)`: an explicit empty
\* key falls through to the environment.
ResolveKeyOr(arg, environ) ==
    IF arg = None \/ arg = Some("")
    THEN Getenv(environ, "OPENAI_API_KEY")
    ELSE arg

ResolveKey(arg, environ) ==
    IF arg = None THEN Getenv(environ, "OPENAI_API_KEY") ELSE arg

\* A mistaken variant: the key is taken out of the environment when read.
EnvironPopKey(environ) == [environ EXCEPT !["OPENAI_API_KEY"] = None]

\* os.getenv only reads: the process environment after lines 77-82.
EnvironAfterGetenv(environ) == environ

\* A mistaken variant: the fallback is tried with or without a key.
AlwaysFallback(key) == TRUE

\* Line 99, `if openai_api_key:`: neither None nor the empty string.
FallbackConfigured(key) == key # None /\ Unwrap(key) # ""

\* Lines 86-90: the request to the Ollama server.
OllamaRequest(endpoint, model, text) ==
    [ url |-> RStripChars(endpoint, {"/"}) \o <<"/api/generate">>,
      headers |-> <<>>,
      json |-> [model |-> model, prompt |-> text, stream |-> FALSE],
      timeout |-> TIMEOUT ]

\* Lines 115-129: the request to OpenAI.  api_key is the Optional the caller
\* holds; the f-string formats whatever it is given.
OpenAIRequest(text, api_key, model) ==
    [ url |-> OPENAI_URL,
      headers |-> <<"Authorization: Bearer", api_key>>,
      json |-> [ model |-> model, system |-> SYSTEM_MESSAGE, user |-> text,
                 temperature |-> TEMPERATURE, max_tokens |-> MAX_TOKENS ],
      timeout |-> TIMEOUT ]

\* A mistaken variant: the request is sent again (a retry).
PostTwice(log, request) == Append(Append(log, request), request)

\* requests.post: one outbound call, appended to the call's log.
Post(log, request) == Append(log, request)

\* A mistaken variant: `except requests.RequestException`.
CaughtRequestsOnly(kind) == kind \in {"ConnectionError", "Timeout", "HTTPError"}

\* Line 97, `except Exception`: every error of the try block is caught.
Caught(kind) == TRUE

\* A mistaken variant: a bare `raise`, which re-raises the fallback's error.
ReraiseFallback(original, fallback_error) == fallback_error

\* Lines 104-106: the fallback failed with fallback_error; `raise exc`.
Reraise(original, fallback_error) == original

\* ------------------------------------------------------------------
\* State
\* ------------------------------------------------------------------

VARIABLES
    environ,          \* os.environ: the three variables, each set or not
    pc,               \* "idle", "ollama", "openai", "done"
    args,             \* the arguments of the call in progress
    prompt,           \* local: the prompt built
    ollama_endpoint,  \* local, after lines 77-78
    ollama_model,     \* local, after lines 79-80
    openai_api_key,   \* local, after lines 81-82 (Optional)
    posted,           \* the outbound HTTP calls of this call, in order
    response,         \* what the Ollama call gave (Optional reply)
    fb_response,      \* what the OpenAI call gave (Optional reply)
    exc,              \* the error caught at line 97
    outcome,          \* how the call ended: returned value or raised error
    ollamaServer,     \* the answers the Ollama server has given, by request
    openaiServer,     \* the answers OpenAI has given, by request
    calls             \* the finished calls of this process: args and outcome

vars == << environ, pc, args, prompt, ollama_endpoint, ollama_model,
           openai_api_key, posted, response, fb_response, exc, outcome,
           ollamaServer, openaiServer, calls >>

NoError == [kind |-> "none", raised_by |-> "none"]

Error(kind, who) == [kind |-> kind, raised_by |-> who]

NoOutcome == [kind |-> "none", value |-> <<>>, error |-> NoError]

Returned(v) == [kind |-> "return", value |-> v, error |-> NoError]

Raised(e) == [kind |-> "raise", value |-> <<>>, error |-> e]

NoArgs ==
    [ sender |-> "", subject |-> "", body_snippet |-> "",
      ollama_endpoint |-> None, ollama_model |-> None,
      openai_api_key |-> None ]

\* A deterministic server answers a request it has seen as it did before.
Consistent(server, request, reply) ==
    \A e \in server : e.request = request => e.reply = reply

Locals(p, e, m, k) ==
    /\ prompt' = p
    /\ ollama_endpoint' = e
    /\ ollama_model' = m
    /\ openai_api_key' = k

InitWith(environs) ==
    /\ environ \in environs
    /\ pc = "idle"
    /\ args = NoArgs
    /\ prompt = <<>>
    /\ ollama_endpoint = <<>>
    /\ ollama_model = ""
    /\ openai_api_key = None
    /\ posted = <<>>
    /\ response = None
    /\ fb_response = None
    /\ exc = NoError
    /\ outcome = NoOutcome
    /\ ollamaServer = {}
    /\ openaiServer = {}
    /\ calls = <<>>

\* Lines 58-90: classify_email is called; it builds the prompt, resolves the
\* configuration and posts the request to the Ollama server.
Call(argsets) ==
    /\ pc = "idle"
    /\ \E a \in argsets :
         LET p == BuildPrompt(a.sender, a.subject, a.body_snippet)
             e == ResolveEndpoint(a.ollama_endpoint, environ)
             m == ResolveModel(a.ollama_model, environ)
             k == ResolveKey(a.openai_api_key, environ)
         IN  /\ args' = a
             /\ Locals(p, e, m, k)
             /\ posted' = Post(posted, OllamaRequest(e, m, p))
    /\ environ' = EnvironAfterGetenv(environ)
    /\ pc' = "ollama"
    /\ UNCHANGED << response, fb_response, exc, outcome, ollamaServer,
                    openaiServer, calls >>

\* Lines 86-108 from the return of requests.post: the try block on the
\* Ollama reply, and on an error the except clause up to the fallback's post
\* or the re-raise.
OllamaResponds(replies) ==
    /\ pc = "ollama"
    /\ \E reply \in replies :
         LET request == posted[Len(posted)]
             r == OllamaAttempt(reply)
         IN  /\ Consistent(ollamaServer, request, reply)
             /\ ollamaServer' =
                    ollamaServer \cup {[request |-> request, reply |-> reply]}
             /\ response' = Some(reply)
             /\ IF r.ok
                THEN /\ outcome' = Returned(r.value)
                     /\ pc' = "done"
                     /\ UNCHANGED << exc, posted >>
                ELSE IF ~Caught(r.error)
                THEN /\ outcome' = Raised(Error(r.error, "ollama"))
                     /\ pc' = "done"
                     /\ UNCHANGED << exc, posted >>
                ELSE /\ exc' = Error(r.error, "ollama")
                     /\ IF FallbackConfigured(openai_api_key)
                        THEN /\ posted' =
                                  Post(posted,
                                       OpenAIRequest(prompt, openai_api_key,
                                                     OPENAI_MODEL))
                             /\ pc' = "openai"
                             /\ UNCHANGED outcome
                        ELSE /\ outcome' = Raised(Error(r.error, "ollama"))
                             /\ pc' = "done"
                             /\ UNCHANGED posted
    /\ UNCHANGED << environ, args, prompt, ollama_endpoint, ollama_model,
                    openai_api_key, fb_response, openaiServer, calls >>

\* Lines 100-106 and 129-133 from the return of the fallback's requests.post.
OpenAIResponds(replies) ==
    /\ pc = "openai"
    /\ \E reply \in replies :
         LET request == posted[Len(posted)]
             r == classify_with_openai(reply)
         IN  /\ Consistent(openaiServer, request, reply)
             /\ openaiServer' =
                    openaiServer \cup {[request |-> request, reply |-> reply]}
             /\ fb_response' = Some(reply)
             /\ outcome' =
                    IF r.ok THEN Returned(r.value)
                    ELSE Raised(Reraise(exc, Error(r.error, "openai")))
    /\ pc' = "done"
    /\ UNCHANGED << environ, args, prompt, ollama_endpoint, ollama_model,
                    openai_api_key, posted, response, exc, ollamaServer,
                    calls >>

\* The call is over: its locals are gone, and the process may call again.
Finish ==
    /\ pc = "done"
    /\ Len(calls) < MaxCalls
    /\ calls' = Append(calls, [args |-> args, outcome |-> outcome])
    /\ pc' = "idle"
    /\ args' = NoArgs
    /\ Locals(<<>>, <<>>, "", None)
    /\ posted' = <<>>
    /\ response' = None
    /\ fb_response' = None
    /\ exc' = NoError
    /\ outcome' = NoOutcome
    /\ UNCHANGED << environ, ollamaServer, openaiServer >>

\* ------------------------------------------------------------------
\* Inputs: arguments, environments, server answers
\* ------------------------------------------------------------------

Texts == UNION { [1..n -> Chars] : n \in 0..MaxLen }

NoText == <<>>

TransportErrors == {"ConnectionError", "Timeout"}

\* A raised transport error, an error status (with and without a usable
\* body), and every body under a status that raise_for_status lets through.
RepliesOf(shapes, textShape) ==
    { Reply(e, 0, "none", NoText) : e \in TransportErrors }
    \cup { Reply("none", st, "invalid_json", NoText) : st \in {404, 503} }
    \cup { Reply("none", st, textShape, <<"2">>) : st \in {404, 503} }
    \cup { Reply("none", st, sh, NoText) : st \in {200, 300}, sh \in shapes }
    \cup { Reply("none", st, textShape, t) : st \in {200, 300}, t \in Texts }

OllamaReplies ==
    RepliesOf({"invalid_json", "array", "no_response", "null_response"},
              "response")

OpenAIReplies ==
    RepliesOf({"invalid_json", "array", "no_choices", "empty_choices",
               "no_content", "null_content"}, "content")

\* A few answers of each kind, for the specifications that vary other things.
FewOllamaReplies ==
    { Reply("ConnectionError", 0, "none", NoText),
      Reply("none", 200, "response", <<"2", " ", "b">>),
      Reply("none", 200, "response", <<" ">>) }

FewOpenAIReplies ==
    { Reply("none", 503, "invalid_json", NoText),
      Reply("none", 200, "content", <<"2", "2">>),
      Reply("none", 200, "content", <<"b">>) }

ArgsOf(bodies, endpoints, models, keys) ==
    { [ sender |-> "ann@example.org", subject |-> "Lunch?",
        body_snippet |-> b, ollama_endpoint |-> e, ollama_model |-> m,
        openai_api_key |-> k ] :
      b \in bodies, e \in endpoints, m \in models, k \in keys }

EnvironsOf(endpoints, models, keys) ==
    { [ OLLAMA_ENDPOINT |-> e, OLLAMA_MODEL |-> m, OPENAI_API_KEY |-> k ] :
      e \in endpoints, m \in models, k \in keys }

\* Spec: every answer of the two servers, the key passed or set or neither.
MainArgs ==
    ArgsOf({"", "See you at noon"}, {None}, {None},
           {None, Some(""), Some("sk-arg")})

MainEnvirons == EnvironsOf({None}, {None}, {None, Some(""), Some("sk-env")})

\* SpecConfig: every way of passing or setting the three settings.
ConfigArgs ==
    ArgsOf({"See you at noon"},
           {None, Some(<<>>), Some(<<"http://gpu:11434", "/", "/">>)},
           {None, Some(""), Some("mistral")},
           {None, Some(""), Some("sk-arg")})

ConfigEnvirons ==
    EnvironsOf({None, Some(<<>>), Some(<<"http://env:11434", "/">>)},
               {None, Some(""), Some("phi3")},
               {None, Some(""), Some("sk-env")})

\* SpecRepeat: a process that calls again and again.
RepeatArgs ==
    ArgsOf({"", "See you at noon"}, {None}, {None}, {None, Some("sk-arg")})

RepeatEnvirons == EnvironsOf({None}, {None}, {None, Some("sk-env")})

\* ------------------------------------------------------------------
\* Specifications
\* ------------------------------------------------------------------

\* One call of classify_email against servers that answer anything.
Init == InitWith(MainEnvirons)

Next ==
    \/ Call(MainArgs)
    \/ OllamaResponds(OllamaReplies)
    \/ OpenAIResponds(OpenAIReplies)

Spec == Init /\ [][Next]_vars

\* One call under every configuration.
InitConfig == InitWith(ConfigEnvirons)

NextConfig ==
    \/ Call(ConfigArgs)
    \/ OllamaResponds(FewOllamaReplies)
    \/ OpenAIResponds(FewOpenAIReplies)

SpecConfig == InitConfig /\ [][NextConfig]_vars

\* Up to MaxCalls calls in a row against deterministic servers, the
\* environment left alone between the calls.
InitRepeat == InitWith(RepeatEnvirons)

NextRepeat ==
    \/ Call(RepeatArgs)
    \/ OllamaResponds(FewOllamaReplies)
    \/ OpenAIResponds(FewOpenAIReplies)
    \/ Finish

SpecRepeat == InitRepeat /\ [][NextRepeat]_vars

\* ------------------------------------------------------------------
\* What the claims speak of, stated on the replies themselves
\* ------------------------------------------------------------------

AllSpace(t) == \A i \in 1..Len(t) : t[i] \in Whitespace

\* tok is the first maximal run of non-whitespace characters of t.
IsFirstTokenOf(tok, t) ==
    \E i \in 1..Len(t) : \E j \in i..Len(t) :
        /\ \A k \in 1..(i - 1) : t[k] \in Whitespace
        /\ \A k \in i..j : t[k] \notin Whitespace
        /\ j = Len(t) \/ t[j + 1] \in Whitespace
        /\ tok = SubSeq(t, i, j)

Is2xx(status) == status \in 200..299

\* The reply makes the attempt raise: a transport error, a status that
\* raise_for_status raises on, or a body without a usable text.
Fails(reply, textShape) ==
    \/ reply.err # "none"
    \/ reply.status \in 400..599
    \/ reply.shape # textShape
    \/ AllSpace(reply.text)

PrimaryFailed == response # None /\ Fails(Unwrap(response), "response")

FallbackAnswered == fb_response # None

FallbackFailed == fb_response # None /\ Fails(Unwrap(fb_response), "content")

\* The key in force: the argument when one was passed, else the environment.
KeyInForce ==
    IF args.openai_api_key # None
    THEN args.openai_api_key
    ELSE environ.OPENAI_API_KEY

KeyConfigured == KeyInForce \notin {None, Some("")}

IsOllamaCall(request) ==
    /\ request.url # OPENAI_URL
    /\ request.url[Len(request.url)] = "/api/generate"

IsOpenAICall(request) == request.url = OPENAI_URL

FallbackCalls == { i \in 1..Len(posted) : IsOpenAICall(posted[i]) }

Categories == { <<"1">>, <<"2">>, <<"3">>, <<"4">> }

\* ------------------------------------------------------------------
\* Claims
\* ------------------------------------------------------------------

\* C1: when the primary call fails, a key is configured and the fallback
\* call fails too, the error that reaches the caller is the primary's error
\* (the one caught at line 97), never the fallback's, whatever the two kinds.
C1_OriginalErrorPropagates ==
    (pc = "done" /\ PrimaryFailed /\ KeyConfigured /\ FallbackFailed)
        => /\ outcome.kind = "raise"
           /\ outcome.error = exc
           /\ outcome.error.raised_by = "ollama"
           /\ outcome.error.kind # "none"

C1_Witness ==
    /\ pc = "done" /\ PrimaryFailed /\ KeyConfigured /\ FallbackFailed
    /\ outcome.error = Error("IndexError", "ollama")
    /\ Unwrap(fb_response).status = 503

\* C2: when the primary call fails and no key is configured (none passed,
\* none in the environment), the primary error propagates, and no request to
\* OpenAI is made at any point of the call.
C2_NoKeyNoFallback ==
    (args.openai_api_key = None /\ environ.OPENAI_API_KEY = None)
        => /\ FallbackCalls = {}
           /\ (pc # "idle" /\ PrimaryFailed)
                 => /\ pc = "done"
                    /\ outcome.kind = "raise"
                    /\ outcome.error.raised_by = "ollama"
                    /\ outcome.error = exc

C2_Witness ==
    /\ pc = "done" /\ PrimaryFailed
    /\ args.openai_api_key = None /\ environ.OPENAI_API_KEY = None
    /\ outcome = Raised(Error("ConnectionError", "ollama"))
    /\ Len(posted) = 1

\* C3 as stated: when the primary call fails, a key is configured and the
\* fallback answers 2xx with a non-empty message content, classify_email
\* returns the first whitespace-delimited token of that content.
C3_AsStated ==
    (/\ pc = "done" /\ PrimaryFailed /\ KeyConfigured /\ FallbackAnswered
     /\ Unwrap(fb_response).err = "none"
     /\ Is2xx(Unwrap(fb_response).status)
     /\ Unwrap(fb_response).shape = "content"
     /\ Unwrap(fb_response).text # <<>>)
        => /\ outcome.kind = "return"
           /\ IsFirstTokenOf(outcome.value, Unwrap(fb_response).text)

\* C3 as amended: the same, for a content that holds at least one
\* non-whitespace character.
C3_FallbackToken ==
    (/\ pc = "done" /\ PrimaryFailed /\ KeyConfigured /\ FallbackAnswered
     /\ Unwrap(fb_response).err = "none"
     /\ Is2xx(Unwrap(fb_response).status)
     /\ Unwrap(fb_response).shape = "content"
     /\ ~AllSpace(Unwrap(fb_response).text))
        => /\ outcome.kind = "return"
           /\ IsFirstTokenOf(outcome.value, Unwrap(fb_response).text)

C3_Witness ==
    /\ pc = "done" /\ PrimaryFailed /\ KeyConfigured
    /\ fb_response = Some(Reply("none", 200, "content", <<"\n", "2", "b">>))
    /\ outcome = Returned(<<"2", "b">>)

\* C4: when the primary call succeeds (2xx, a JSON object whose response
\* field holds a non-whitespace character) the result is the first
\* whitespace-delimited token of the response text, with or without a key.
C4_PrimaryToken ==
    (/\ pc # "idle" /\ response # None
     /\ Unwrap(response).err = "none"
     /\ Is2xx(Unwrap(response).status)
     /\ Unwrap(response).shape = "response"
     /\ ~AllSpace(Unwrap(response).text))
        => /\ pc = "done"
           /\ outcome.kind = "return"
           /\ IsFirstTokenOf(outcome.value, Unwrap(response).text)
           /\ Len(posted) = 1

C4_Witness ==
    /\ pc = "done" /\ KeyConfigured
    /\ response = Some(Reply("none", 200, "response", <<"2", " ", "b">>))
    /\ outcome = Returned(<<"2">>)

\* The primary answered 2xx with an empty, missing or all-whitespace
\* response field.
EmptyPrimaryAnswer ==
    /\ pc = "done" /\ response # None
    /\ Unwrap(response).err = "none"
    /\ Is2xx(Unwrap(response).status)
    /\ \/ Unwrap(response).shape = "no_response"
       \/ Unwrap(response).shape = "response" /\ AllSpace(Unwrap(response).text)

\* C5 as stated: on an empty primary answer classify_email fails with the
\* index error, whatever the fallback configuration.
C5_AsStated ==
    EmptyPrimaryAnswer => outcome = Raised(Error("IndexError", "ollama"))

\* C5 as amended: on an empty primary answer classify_email never returns an
\* empty string; it fails with the index error when no key is configured or
\* the fallback fails too, and returns the fallback's token otherwise.
C5_EmptyAnswer ==
    EmptyPrimaryAnswer
        => /\ outcome # Returned(<<>>)
           /\ (~KeyConfigured \/ FallbackFailed)
                 => outcome = Raised(Error("IndexError", "ollama"))
           /\ (KeyConfigured /\ ~FallbackFailed)
                 => /\ outcome.kind = "return"
                    /\ IsFirstTokenOf(outcome.value, Unwrap(fb_response).text)

C5_Witness ==
    /\ EmptyPrimaryAnswer /\ ~KeyConfigured
    /\ Unwrap(response).shape = "response"
    /\ Unwrap(response).text = <<" ", "\n">>
    /\ outcome = Raised(Error("IndexError", "ollama"))

\* C6: every value classify_email returns is one of "1", "2", "3", "4".
C6_ClosedSet == outcome.kind = "return" => outcome.value \in Categories

\* C7: a call is one linear sequence: the Ollama request first and once; at
\* most one OpenAI request, only after the Ollama call failed and only with
\* a key configured; never more than two requests; then a value or an error.
C7_LinearAttempts ==
    /\ Len(posted) <= 2
    /\ pc # "idle" => Len(posted) >= 1 /\ IsOllamaCall(posted[1])
    /\ \A i \in 2..Len(posted) : ~IsOllamaCall(posted[i])
    /\ \A i \in FallbackCalls : i = 2 /\ PrimaryFailed /\ KeyConfigured
    /\ pc = "openai" => Len(posted) = 2
    /\ pc = "done" <=> outcome.kind \in {"return", "raise"}

C7_Witness ==
    /\ pc = "done" /\ Len(posted) = 2 /\ IsOpenAICall(posted[2])
    /\ outcome.kind = "raise"

\* C8: calls with identical arguments, under the same environment and
\* against deterministic servers, end the same way, in any number and order.
C8_Idempotent ==
    /\ \A i, j \in 1..Len(calls) :
         calls[i].args = calls[j].args => calls[i].outcome = calls[j].outcome
    /\ \A i \in 1..Len(calls) :
         (pc = "done" /\ calls[i].args = args) => calls[i].outcome = outcome

C8_Witness ==
    /\ Len(calls) = 3
    /\ calls[1].args = calls[3].args
    /\ calls[2].args # calls[1].args
    /\ calls[1].outcome.kind = "return"
    /\ calls[2].outcome.kind = "raise"

\* C9: each setting is the argument when one was passed (an empty one
\* included), else the environment variable, else the default (endpoint,
\* model) or no key; no key, or an empty one, means no fallback.
Setting(arg, env, default) ==
    IF arg # None THEN Unwrap(arg)
    ELSE IF env # None THEN Unwrap(env)
    ELSE default

\* url is base with its trailing slashes dropped, then the path.
IsGenerateUrl(url, base) ==
    \E n \in 0..Len(base) :
        /\ \A k \in (n + 1)..Len(base) : base[k] = "/"
        /\ n > 0 => base[n] # "/"
        /\ url = SubSeq(base, 1, n) \o <<"/api/generate">>

C9_Precedence ==
    pc # "idle"
        => /\ IsGenerateUrl(posted[1].url,
                            Setting(args.ollama_endpoint,
                                    environ.OLLAMA_ENDPOINT,
                                    DEFAULT_OLLAMA_ENDPOINT))
           /\ posted[1].json.model =
                  Setting(args.ollama_model, environ.OLLAMA_MODEL,
                          DEFAULT_OLLAMA_MODEL)
           /\ openai_api_key = KeyInForce
           /\ \A i \in FallbackCalls :
                  /\ KeyConfigured
                  /\ posted[i].headers = <<"Authorization: Bearer", KeyInForce>>
           /\ (PrimaryFailed /\ KeyConfigured) => FallbackCalls # {}

C9_Witness ==
    /\ pc = "done" /\ PrimaryFailed
    /\ args.openai_api_key = Some("")
    /\ environ.OPENAI_API_KEY = Some("sk-env")
    /\ args.ollama_endpoint = None
    /\ environ.OLLAMA_ENDPOINT = Some(<<"http://env:11434", "/">>)
    /\ posted = << OllamaRequest(<<"http://env:11434">>, "mistral", prompt) >>

\* C10 as stated: every kind of primary failure (transport error, non-2xx
\* status, unparseable body, missing field, empty text) with a key configured
\* leads to exactly one fallback request, whose user message is the prompt
\* sent to the primary.
FailsAsStated(reply) ==
    \/ reply.err # "none"
    \/ ~Is2xx(reply.status)
    \/ reply.shape # "response"
    \/ AllSpace(reply.text)

OneFallbackSamePrompt ==
    /\ Cardinality(FallbackCalls) = 1
    /\ \A i \in FallbackCalls :
          /\ posted[i].json.user = posted[1].json.prompt
          /\ posted[i].json.user =
                 BuildPrompt(args.sender, args.subject, args.body_snippet)

====
